---- MODULE Spec2Model ----
(***************************************************************************)
(* A model of pageindex-js: the chat-completion stream decoder of          *)
(* PageIndexClient (streamText / streamRaw), the tree indexer              *)
(* (createNodeMapping / getAllNodes), the field filter (removeFields) and  *)
(* the error behaviour of the client's public operations.                  *)
(*                                                                         *)
(* JavaScript strings are sequences of one-character strings; a byte of    *)
(* the transport is the character itself for ASCII, and "C3" / "A9" for    *)
(* the two bytes of the UTF-8 encoding of U+00E9.                          *)
(***************************************************************************)
EXTENDS Integers, Sequences, FiniteSets, TLC

VARIABLES
    \* ---- stream decoder (streamText / streamRaw) ----
    mode,       \* "text" (streamText) or "raw" (streamRaw); "off" outside the decoder
    stream,     \* the bytes the transport will deliver, in order
    pos,        \* number of bytes already handed out by reader.read()
    yielded,    \* the elements the generator has yielded, in order
    spc,        \* "read": at the await of reader.read(); "done": left by break;
                \* "returned": left by return; "threw": left by an exception; "off"
    aligned,    \* history: every chunk delivered so far ended with "\n"
    \* ---- tree indexer (createNodeMapping) ----
    treeIn,     \* the tree argument: a TreeNode, or a list [items |-> <<TreeNode...>>]
    maxPageIn,  \* the maxPage argument: <<>> when not supplied, else <<P>>
    mapping,    \* the NodeMapping returned by the last call
    tpc,        \* "idle": not called; "nodes": called without page ranges;
                \* "ranges": called with includePageRanges; "off"
    \* ---- field filter (removeFields) ----
    dataIn,     \* the data argument, a JavaScript value
    fieldsIn,   \* the fields argument: <<>> when omitted, else <<list of keys>>
    maxLenIn,   \* the maxLen argument: <<>> when omitted, else <<n>>
    filtered,   \* removeFields(data, fields, maxLen)
    refiltered, \* removeFields(filtered, fields, maxLen)
    fpc,        \* "idle", "once" (filtered is set), "twice" (refiltered is set); "off"
    \* ---- PageIndexClient operations ----
    call,       \* the last call: <<>>, or <<[op, args, responses]>>
    outcome,    \* how the last call ended: <<>>, or <<a returned value or a thrown error>>
    cpc         \* "ready": the client is constructed; "off"

svars == <<mode, stream, pos, yielded, spc, aligned>>
tvars == <<treeIn, maxPageIn, mapping, tpc>>
fvars == <<dataIn, fieldsIn, maxLenIn, filtered, refiltered, fpc>>
cvars == <<call, outcome, cpc>>
vars == <<svars, tvars, fvars, cvars>>

\* an optional value: undefined, or a value
None == <<>>
Some(x) == <<x>>

(***************************************************************************)
(* JavaScript values                                                       *)
(***************************************************************************)
JUndefined == [t |-> "undefined"]
JNull == [t |-> "null"]
JBool(b) == [t |-> "bool", b |-> b]
JNum(n) == [t |-> "num", n |-> n]
JStr(s) == [t |-> "str", s |-> s]
JArr(items) == [t |-> "arr", items |-> items]
JObj(entries) == [t |-> "obj", entries |-> entries]

\* obj[k] on an object: the value of its last entry named k, else undefined.
RECURSIVE Lookup(_, _, _)
Lookup(entries, k, i) ==
    IF i = 0 THEN JUndefined
    ELSE IF entries[i].k = k THEN entries[i].v
    ELSE Lookup(entries, k, i - 1)

\* v?.[k] : optional chaining never throws; undefined and null give undefined.
OptGet(v, k) ==
    IF v.t = "obj" THEN Lookup(v.entries, k, Len(v.entries))
    ELSE JUndefined

\* JavaScript truthiness of a value.
Truthy(v) ==
    CASE v.t = "undefined" -> FALSE
      [] v.t = "null" -> FALSE
      [] v.t = "bool" -> v.b
      [] v.t = "num" -> v.n # 0
      [] v.t = "str" -> Len(v.s) > 0
      [] OTHER -> TRUE

(***************************************************************************)
(* String primitives                                                       *)
(***************************************************************************)
ReplacementChar == "U+FFFD"
EAcute == "U+00E9"
Gone == "<consumed>"

\* new TextDecoder().decode(value): UTF-8, non-fatal, no {stream: true}. Every
\* call starts from an empty decoder state, so a lead byte with no continuation
\* byte after it in the same buffer, and a continuation byte with no lead byte
\* before it, each decode to U+FFFD.
TextDecode(b) ==
    LET n == Len(b)
        at(j) ==
            IF b[j] = "C3"
            THEN IF j < n /\ b[j + 1] = "A9" THEN EAcute ELSE ReplacementChar
            ELSE IF b[j] = "A9"
            THEN IF j > 1 /\ b[j - 1] = "C3" THEN Gone ELSE ReplacementChar
            ELSE b[j]
    IN SelectSeq([j \in 1..n |-> at(j)], LAMBDA c : c # Gone)

\* the indices of the "\n" characters of t, in order
Newlines(t) == SelectSeq([j \in 1..Len(t) |-> j], LAMBDA j : t[j] = "\n")

\* text.split("\n"): the pieces between the newlines nl of t, one more than
\* there are newlines, so always at least one (possibly empty) line
Pieces(t, nl) ==
    <<>> \o [k \in 1..(Len(nl) + 1) |->
                SubSeq(t, IF k = 1 THEN 1 ELSE nl[k - 1] + 1,
                          IF k > Len(nl) THEN Len(t) ELSE nl[k] - 1)]

SplitLines(t) == Pieces(t, Newlines(t))

DataPrefix == <<"d", "a", "t", "a", ":", " ">>

\* line.startsWith(p)
StartsWith(line, p) ==
    /\ Len(line) >= Len(p)
    /\ \A i \in 1..Len(p) : line[i] = p[i]

\* line.slice(n)
SliceFrom(line, n) == SubSeq(line, n + 1, Len(line))

IsWhite(c) == c \in {" ", "\t", "\r", "\n"}

RECURSIVE FirstInk(_, _)
FirstInk(s, i) == IF i > Len(s) \/ ~IsWhite(s[i]) THEN i ELSE FirstInk(s, i + 1)

RECURSIVE LastInk(_, _)
LastInk(s, i) == IF i < 1 \/ ~IsWhite(s[i]) THEN i ELSE LastInk(s, i - 1)

\* s.trim()
Trim(s) == SubSeq(s, FirstInk(s, 1), LastInk(s, Len(s)))

DoneSentinel == <<"[", "D", "O", "N", "E", "]">>

(***************************************************************************)
(* JSON.parse, for the JSON subset without whitespace between tokens,      *)
(* escapes in strings, signs, fractions or exponents.  A text outside the  *)
(* subset is rejected, as JSON.parse rejects a malformed text.             *)
(***************************************************************************)
Digits == {"0", "1", "2", "3", "4", "5", "6", "7", "8", "9"}

DigitVal(c) ==
    CASE c = "0" -> 0 [] c = "1" -> 1 [] c = "2" -> 2 [] c = "3" -> 3
      [] c = "4" -> 4 [] c = "5" -> 5 [] c = "6" -> 6 [] c = "7" -> 7
      [] c = "8" -> 8 [] c = "9" -> 9

Fail(i) == [ok |-> FALSE, v |-> JUndefined, i |-> i]
Ok(v, i) == [ok |-> TRUE, v |-> v, i |-> i]

HasAt(s, i, w) ==
    /\ i + Len(w) - 1 <= Len(s)
    /\ \A j \in 1..Len(w) : s[i + j - 1] = w[j]

\* index of the closing quote of a string whose content starts at i, 0 if none
RECURSIVE CloseQuote(_, _)
CloseQuote(s, i) ==
    IF i > Len(s) THEN 0
    ELSE IF s[i] = "\"" THEN i
    ELSE IF s[i] \in {"\\", "\r", "\t", "\n"} THEN 0
    ELSE CloseQuote(s, i + 1)

StringTo(s, i, q) ==
    IF q = 0 THEN Fail(i) ELSE Ok(JStr(SubSeq(s, i + 1, q - 1)), q + 1)

ParseString(s, i) ==
    IF i > Len(s) \/ s[i] # "\"" THEN Fail(i)
    ELSE StringTo(s, i, CloseQuote(s, i + 1))

RECURSIVE ParseDigits(_, _, _)
ParseDigits(s, i, acc) ==
    IF i <= Len(s) /\ s[i] \in Digits
    THEN ParseDigits(s, i + 1, acc * 10 + DigitVal(s[i]))
    ELSE Ok(JNum(acc), i)

ParseNumber(s, i) ==
    IF s[i] = "0" THEN Ok(JNum(0), i + 1) ELSE ParseDigits(s, i, 0)

RECURSIVE ParseValue(_, _)
RECURSIVE ParseElements(_, _, _)
RECURSIVE ParseMembers(_, _, _)

ParseValue(s, i) ==
    IF i > Len(s) THEN Fail(i)
    ELSE IF s[i] = "{" THEN
        IF HasAt(s, i + 1, <<"}">>) THEN Ok(JObj(<<>>), i + 2)
        ELSE ParseMembers(s, i + 1, <<>>)
    ELSE IF s[i] = "[" THEN
        IF HasAt(s, i + 1, <<"]">>) THEN Ok(JArr(<<>>), i + 2)
        ELSE ParseElements(s, i + 1, <<>>)
    ELSE IF s[i] = "\"" THEN ParseString(s, i)
    ELSE IF s[i] \in Digits THEN ParseNumber(s, i)
    ELSE IF HasAt(s, i, <<"n", "u", "l", "l">>) THEN Ok(JNull, i + 4)
    ELSE IF HasAt(s, i, <<"t", "r", "u", "e">>) THEN Ok(JBool(TRUE), i + 4)
    ELSE IF HasAt(s, i, <<"f", "a", "l", "s", "e">>) THEN Ok(JBool(FALSE), i + 5)
    ELSE Fail(i)

\* the elements of an array after "[" or ",", up to and including "]";
\* r is the element parsed at i
AfterElement(s, i, acc, r) ==
    IF ~r.ok THEN Fail(i)
    ELSE IF HasAt(s, r.i, <<",">>) THEN ParseElements(s, r.i + 1, Append(acc, r.v))
    ELSE IF HasAt(s, r.i, <<"]">>) THEN Ok(JArr(Append(acc, r.v)), r.i + 1)
    ELSE Fail(r.i)

ParseElements(s, i, acc) == AfterElement(s, i, acc, ParseValue(s, i))

\* the members of an object after "{" or ",", up to and including "}";
\* k is the key parsed at i and r the value parsed after its colon
AfterMember(s, i, acc, k, r) ==
    IF ~r.ok THEN Fail(i)
    ELSE IF HasAt(s, r.i, <<",">>)
         THEN ParseMembers(s, r.i + 1, Append(acc, [k |-> k.v.s, v |-> r.v]))
    ELSE IF HasAt(s, r.i, <<"}">>)
         THEN Ok(JObj(Append(acc, [k |-> k.v.s, v |-> r.v])), r.i + 1)
    ELSE Fail(r.i)

AfterKey(s, i, acc, k) ==
    IF ~k.ok \/ ~HasAt(s, k.i, <<":">>) THEN Fail(i)
    ELSE AfterMember(s, i, acc, k, ParseValue(s, k.i + 1))

ParseMembers(s, i, acc) == AfterKey(s, i, acc, ParseString(s, i))

\* JSON.parse(data): ok = FALSE stands for the SyntaxError it throws
WholeText(data, r) == IF r.ok /\ r.i = Len(data) + 1 THEN r ELSE Fail(1)

JSONParse(data) == WholeText(data, ParseValue(data, 1))

(***************************************************************************)
(* The stream decoder: PageIndexClient.streamText / streamRaw              *)
(***************************************************************************)
\* chunk.choices?.[0]?.delta?.content ?? ""  (part_000:266-267).  chunk.choices
\* is a plain member access: it throws a TypeError when chunk is null.
\* x?.[0] on a string is its first character, on an object its member "0".
Index0(v) ==
    CASE v.t = "arr" -> IF Len(v.items) >= 1 THEN v.items[1] ELSE JUndefined
      [] v.t = "str" -> IF Len(v.s) >= 1 THEN JStr(<<v.s[1]>>) ELSE JUndefined
      [] v.t = "obj" -> Lookup(v.entries, "0", Len(v.entries))
      [] OTHER -> JUndefined

Nullish(v) == v.t \in {"undefined", "null"}

OrEmpty(c) == IF Nullish(c) THEN JStr(<<>>) ELSE c

ContentOf(chunk) ==
    OrEmpty(OptGet(OptGet(Index0(OptGet(chunk, "choices")), "delta"), "content"))

Skip == [kind |-> "skip", v |-> JUndefined]
Return == [kind |-> "return", v |-> JUndefined]
Yield(v) == [kind |-> "yield", v |-> v]

\* faulty variant: the emptiness test of line 268 forgotten
YieldContent_Always(content) == Yield(content)

\* if (content) yield content;   (part_000:268)
YieldContent(content) == IF Truthy(content) THEN Yield(content) ELSE Skip

\* faulty variant: no try/catch, so a frame that is not JSON throws out of the generator
DecodeFrame_NoCatch(r, m) ==
    IF ~r.ok THEN [kind |-> "throw", v |-> JUndefined]
    ELSE IF m = "raw" THEN Yield(r.v)
    ELSE IF r.v.t = "null" THEN [kind |-> "throw", v |-> JUndefined]
    ELSE YieldContent(ContentOf(r.v))

\* The try block on the parsed frame r: part_000:265-268 (text), 293 (raw).
\* A failed parse, and in text mode the TypeError of null.choices, go to the
\* catch block, which continues with the next line.
DecodeFrame(r, m) ==
    IF ~r.ok THEN Skip
    ELSE IF m = "raw" THEN Yield(r.v)
    ELSE IF r.v.t = "null" THEN Skip
    ELSE YieldContent(ContentOf(r.v))

\* faulty variant: the sentinel test of line 262 forgotten
DecodeData_NoSentinel(data, m) == DecodeFrame(JSONParse(data), m)

\* if (data === "[DONE]") return; else the try block   (part_000:262-271)
DecodeData(data, m) ==
    IF data = DoneSentinel THEN Return ELSE DecodeFrame(JSONParse(data), m)

\* One pass of the body of the for loop over the lines of a chunk
\* (part_000:260-272 in text mode, 288-297 in raw mode).
\*   "skip": nothing happens;  "yield": v is yielded;
\*   "return": the generator returns;  "throw": an exception leaves the generator.
DecodeLine(line, m) ==
    IF StartsWith(line, DataPrefix) THEN DecodeData(Trim(SliceFrom(line, 6)), m)
    ELSE Skip

Emit(d, rest) ==
    [out |-> (IF d.kind = "yield" THEN <<d.v>> ELSE <<>>) \o rest.out,
     status |-> rest.status]

\* The for loop over text.split("\n"), from line i on: what it yields and how it
\* ends ("more": the loop ran to its end and the while loop reads again).
RECURSIVE DecodeLines(_, _, _)
AfterLine(lines, i, m, d) ==
    IF d.kind = "return" THEN [out |-> <<>>, status |-> "return"]
    ELSE IF d.kind = "throw" THEN [out |-> <<>>, status |-> "throw"]
    ELSE Emit(d, DecodeLines(lines, i + 1, m))

DecodeLines(lines, i, m) ==
    IF i > Len(lines) THEN [out |-> <<>>, status |-> "more"]
    ELSE AfterLine(lines, i, m, DecodeLine(lines[i], m))

\* One turn of the while loop on a chunk of bytes (part_000:257-273 / 285-298).
DecodeChunk(value, m) == DecodeLines(SplitLines(TextDecode(value)), 1, m)

\* a frame whose delta carries the text "A"
LineContentA ==
    <<"d", "a", "t", "a", ":", " ", "{", "\"", "c", "h", "o", "i", "c", "e",
      "s", "\"", ":", "[", "{", "\"", "d", "e", "l", "t", "a", "\"", ":",
      "{", "\"", "c", "o", "n", "t", "e", "n", "t", "\"", ":", "\"", "A",
      "\"", "}", "}", "]", "}">>

\* the same frame followed by a blank keep-alive line
EventContentA == LineContentA \o <<"\n">>

\* the end-of-stream sentinel
LineDone ==
    <<"d", "a", "t", "a", ":", " ", "[", "D", "O", "N", "E", "]">>

\* a frame that is not JSON: its payload is the one character U+00E9, two
\* bytes on the wire
LineMalformed ==
    <<"d", "a", "t", "a", ":", " ", "C3", "A9">>

\* a frame whose delta carries the empty text
LineEmptyContent ==
    <<"d", "a", "t", "a", ":", " ", "{", "\"", "c", "h", "o", "i", "c", "e",
      "s", "\"", ":", "[", "{", "\"", "d", "e", "l", "t", "a", "\"", ":",
      "{", "\"", "c", "o", "n", "t", "e", "n", "t", "\"", ":", "\"", "\"",
      "}", "}", "]", "}">>

\* the JSON frame null, which has no choices, on a line ended by CR LF
LineNull ==
    <<"d", "a", "t", "a", ":", " ", "n", "u", "l", "l", "\r">>

LineKinds ==
    {EventContentA, LineDone, LineMalformed, LineEmptyContent, LineNull}

MaxLines == 2

\* the byte stream of a sequence of records, each ended by "\n"
RECURSIVE Wire(_)
Wire(ls) == IF ls = <<>> THEN <<>> ELSE Head(ls) \o <<"\n">> \o Wire(Tail(ls))

Streams == {Wire(ls) : ls \in UNION {[1..n -> LineKinds] : n \in 0..MaxLines}}

StreamOff ==
    /\ mode = "off"
    /\ stream = <<>>
    /\ pos = 0
    /\ yielded = <<>>
    /\ spc = "off"
    /\ aligned = TRUE

TreeOff ==
    /\ treeIn = [items |-> <<>>]
    /\ maxPageIn = None
    /\ mapping = <<>>
    /\ tpc = "off"

FilterOff ==
    /\ dataIn = JNull
    /\ fieldsIn = None
    /\ maxLenIn = None
    /\ filtered = JNull
    /\ refiltered = JNull
    /\ fpc = "off"

ClientOff ==
    /\ call = None
    /\ outcome = None
    /\ cpc = "off"

InitStream ==
    /\ TreeOff
    /\ FilterOff
    /\ ClientOff
    /\ mode \in {"text", "raw"}
    /\ stream \in Streams
    /\ pos = 0
    /\ yielded = <<>>
    /\ spc = "read"
    /\ aligned = TRUE

\* reader.read() resolves with the next k >= 1 bytes of the stream (done = false);
\* the turn of the while loop on them runs to the next await or to its return.
ReadChunk ==
    /\ spc = "read"
    /\ \E k \in 1..(Len(stream) - pos) :
        \E r \in {DecodeChunk(SubSeq(stream, pos + 1, pos + k), mode)} :
           /\ pos' = pos + k
           /\ aligned' = (aligned /\ stream[pos + k] = "\n")
           /\ yielded' = yielded \o r.out
           /\ spc' = CASE r.status = "return" -> "returned"
                       [] r.status = "throw" -> "threw"
                       [] OTHER -> "read"
    /\ UNCHANGED <<mode, stream, tvars, fvars, cvars>>

\* reader.read() resolves with done = true: the while loop breaks.
ReadEnd ==
    /\ spc = "read"
    /\ pos = Len(stream)
    /\ spc' = "done"
    /\ UNCHANGED <<mode, stream, pos, yielded, aligned, tvars, fvars, cvars>>

NextStream == ReadChunk \/ ReadEnd

SpecStream == InitStream /\ [][NextStream]_vars

(***************************************************************************)
(* The tree indexer: createNodeMapping / getAllNodes (utils.ts)            *)
(*                                                                         *)
(* A TreeNode is [node_id, page_index, nodes]: node_id and page_index are  *)
(* optional values, nodes the sequence of children (tree.nodes ?? []).     *)
(***************************************************************************)
Node(id, page, children) == [node_id |-> id, page_index |-> page, nodes |-> children]

\* Array.isArray(tree)
IsArray(tree) == "items" \in DOMAIN tree

\* getAllNodes (utils.ts:85-92); FlatMap is list.flatMap(getAllNodes) from i on
RECURSIVE getAllNodes(_)
RECURSIVE FlatMap(_, _)
FlatMap(list, i) ==
    IF i > Len(list) THEN <<>>
    ELSE getAllNodes(list[i]) \o FlatMap(list, i + 1)

getAllNodes(tree) ==
    IF IsArray(tree) THEN FlatMap(tree.items, 1)
    ELSE <<tree>> \o FlatMap(tree.nodes, 1)

\* if (node.node_id): undefined and the empty string are falsy
HasNodeId(node) == node.node_id # None /\ node.node_id # Some("")

\* map[key] = value on a JavaScript object used as a map
Put(map, key, value) ==
    [k \in DOMAIN map \cup {key} |-> IF k = key THEN value ELSE map[k]]

EmptyMap == <<>>

\* faulty variant: an id already in the map is not overwritten (first write wins)
RECURSIVE NodeMap_FirstWins(_, _, _)
NodeMap_FirstWins(allNodes, i, map) ==
    IF i > Len(allNodes) THEN map
    ELSE IF HasNodeId(allNodes[i]) /\ allNodes[i].node_id[1] \notin DOMAIN map
         THEN NodeMap_FirstWins(allNodes, i + 1, Put(map, allNodes[i].node_id[1], allNodes[i]))
    ELSE NodeMap_FirstWins(allNodes, i + 1, map)

\* the loop of utils.ts:59-61 from node i on
RECURSIVE NodeMap(_, _, _)
NodeMap(allNodes, i, map) ==
    IF i > Len(allNodes) THEN map
    ELSE IF HasNodeId(allNodes[i])
         THEN NodeMap(allNodes, i + 1, Put(map, allNodes[i].node_id[1], allNodes[i]))
    ELSE NodeMap(allNodes, i + 1, map)

\* faulty variant: the end is taken from the next node that has a node_id, and is
\* maxPage when no such node follows
RECURSIVE EndIndex_NextWithId(_, _, _)
EndIndex_NextWithId(allNodes, i, maxPage) ==
    IF i + 1 > Len(allNodes) THEN maxPage
    ELSE IF HasNodeId(allNodes[i + 1]) THEN allNodes[i + 1].page_index
    ELSE EndIndex_NextWithId(allNodes, i + 1, maxPage)

\* utils.ts:71-77, for the node at position i (counted from 1)
EndIndex(allNodes, i, maxPage) ==
    IF i + 1 <= Len(allNodes) THEN allNodes[i + 1].page_index ELSE maxPage

\* faulty variant: the range starts at the page of the node before
StartIndex_Previous(allNodes, i) ==
    IF i > 1 THEN allNodes[i - 1].page_index ELSE allNodes[i].page_index

\* utils.ts:70
StartIndex(allNodes, i) == allNodes[i].page_index

\* the loop of utils.ts:66-80 from node i on
RECURSIVE RangeMap(_, _, _, _)
RangeMap(allNodes, i, maxPage, map) ==
    IF i > Len(allNodes) THEN map
    ELSE IF ~HasNodeId(allNodes[i]) THEN RangeMap(allNodes, i + 1, maxPage, map)
    ELSE RangeMap(allNodes, i + 1, maxPage,
            Put(map, allNodes[i].node_id[1],
                [node |-> allNodes[i],
                 start_index |-> StartIndex(allNodes, i),
                 end_index |-> EndIndex(allNodes, i, maxPage)]))

\* createNodeMapping (utils.ts:50-83)
createNodeMapping(tree, includePageRanges, maxPage) ==
    IF ~includePageRanges THEN NodeMap(getAllNodes(tree), 1, EmptyMap)
    ELSE RangeMap(getAllNodes(tree), 1, maxPage, EmptyMap)

MaxNodes == 3

\* node_id and page_index values of the inputs
NodeIds == {"a", "b"}
Pages == {1, 3}
MaxPages == {10}

\* a node whose node_id is the empty string: a string, and falsy
EmptyIdLabel == <<Some(""), Some(1)>>

Labels == {<<id, pg>> : id \in {None} \cup {Some(x) : x \in NodeIds},
                        pg \in {None} \cup {Some(x) : x \in Pages}}
              \cup {EmptyIdLabel}

\* An input of n nodes is drawn as the labels of its nodes and their
\* depths, both in document order, and built into nested TreeNode objects.
IsDepthList(d, n) ==
    /\ n > 0 => d[1] = 0
    /\ \A i \in 1..(n - 1) : d[i + 1] <= d[i] + 1

\* the last node of the subtree of node i
SubtreeEnd(d, n, i) ==
    CHOOSE j \in i..n :
        /\ \A k \in (i + 1)..j : d[k] > d[i]
        /\ j < n => d[j + 1] <= d[i]

Ascending(n) == <<>> \o [k \in 1..n |-> k]

RECURSIVE BuildNode(_, _, _, _)
BuildChildren(l, d, n, kids) ==
    <<>> \o [k \in 1..Len(kids) |-> BuildNode(l, d, n, kids[k])]

KidsOf(d, n, i, last) ==
    SelectSeq(Ascending(n), LAMBDA j : j > i /\ j <= last /\ d[j] = d[i] + 1)

BuildNode(l, d, n, i) ==
    Node(l[i][1], l[i][2], BuildChildren(l, d, n, KidsOf(d, n, i, SubtreeEnd(d, n, i))))

RootsOf(d, n) == SelectSeq(Ascending(n), LAMBDA j : d[j] = 0)

\* a TreeNode[] of the roots, or the single TreeNode
BuildInput(l, d, n, asList) ==
    IF asList THEN [items |-> BuildChildren(l, d, n, RootsOf(d, n))]
    ELSE BuildNode(l, d, n, 1)

\* {node_id: "r", page_index: 1, nodes: [{node_id: "a", page_index: 1},
\*                                        {node_id: "b", page_index: 3}]}
ExampleTree ==
    Node(Some("r"), Some(1), <<Node(Some("a"), Some(1), <<>>),
                               Node(Some("b"), Some(3), <<>>)>>)

InitTree ==
    /\ StreamOff
    /\ FilterOff
    /\ ClientOff
    /\ \/ treeIn = ExampleTree
       \/ \E n \in 0..MaxNodes :
            \E d \in [1..n -> 0..n] :
               /\ IsDepthList(d, n)
               /\ \E asList \in BOOLEAN :
                    /\ IF asList THEN TRUE ELSE Len(RootsOf(d, n)) = 1
                    /\ \E l \in [1..n -> Labels] :
                         treeIn = BuildInput(l, d, n, asList)
    /\ maxPageIn = None
    /\ mapping = EmptyMap
    /\ tpc = "idle"

\* createNodeMapping(tree)
CallNodeMapping ==
    /\ tpc = "idle"
    /\ mapping' = createNodeMapping(treeIn, FALSE, None)
    /\ tpc' = "nodes"
    /\ UNCHANGED <<treeIn, maxPageIn, svars, fvars, cvars>>

\* createNodeMapping(tree, true) and createNodeMapping(tree, true, maxPage)
CallPageRanges ==
    /\ tpc = "idle"
    /\ \E maxPage \in {None} \cup {Some(x) : x \in MaxPages} :
         /\ maxPageIn' = maxPage
         /\ mapping' = createNodeMapping(treeIn, TRUE, maxPage)
    /\ tpc' = "ranges"
    /\ UNCHANGED <<treeIn, svars, fvars, cvars>>

NextTree == CallNodeMapping \/ CallPageRanges

SpecTree == InitTree /\ [][NextTree]_vars


(***************************************************************************)
(* The field filter: removeFields (utils.ts)                               *)
(*                                                                         *)
(* An object is the list of its entries [k, v] in Object.entries order,    *)
(* its keys distinct; a key is a string.                                   *)
(***************************************************************************)
KeyText == <<"t", "e", "x", "t">>
KeyK == <<"k">>

\* fields = ["text"]
DefaultFields == <<KeyText>>

\* fields.includes(k)
Includes(fields, k) == \E i \in DOMAIN fields : fields[i] = k

Ellipsis == <<".", ".", ".">>

\* faulty variant: the last maxLen characters are kept instead of the first
Truncate_KeepEnd(s, maxLen) == SubSeq(s, Len(s) - maxLen + 1, Len(s)) \o Ellipsis

\* data.slice(0, maxLen) + "...", for a length maxLen >= 0
Truncate(s, maxLen) == SubSeq(s, 1, maxLen) \o Ellipsis

\* faulty variant: a string of exactly maxLen characters is truncated too
TooLong_OrEqual(s, maxLen) == maxLen # None /\ Len(s) >= maxLen[1]

\* maxLen !== undefined && data.length > maxLen
TooLong(s, maxLen) == maxLen # None /\ Len(s) > maxLen[1]

RECURSIVE removeFields(_, _, _)
\* data.map((item) => removeFields(item, fields, maxLen))
MapItems(items, fields, maxLen) ==
    <<>> \o [i \in 1..Len(items) |-> removeFields(items[i], fields, maxLen)]

\* the loop of utils.ts:17-21 from entry i on
RECURSIVE CopyEntries(_, _, _, _)
CopyEntries(entries, i, fields, maxLen) ==
    IF i > Len(entries) THEN <<>>
    ELSE IF ~Includes(fields, entries[i].k)
         THEN <<[k |-> entries[i].k, v |-> removeFields(entries[i].v, fields, maxLen)]>>
                  \o CopyEntries(entries, i + 1, fields, maxLen)
    ELSE CopyEntries(entries, i + 1, fields, maxLen)

\* removeFields (utils.ts:5-33)
removeFields(data, fields, maxLen) ==
    CASE data.t = "arr" -> JArr(MapItems(data.items, fields, maxLen))
      [] data.t = "obj" -> JObj(CopyEntries(data.entries, 1, fields, maxLen))
      [] data.t = "str" ->
            IF TooLong(data.s, maxLen) THEN JStr(Truncate(data.s, maxLen[1])) ELSE data
      [] OTHER -> data

\* the fields parameter with its default
FieldsOr(fields) == IF fields = None THEN DefaultFields ELSE fields[1]

\* number of values (containers and scalars) in an input
MaxSize == 3
\* length of the longest input string, and the largest maxLen
MaxStr == 3

Alphabet == <<"a", "b", "c", "d", "e">>
Strings == {SubSeq(Alphabet, 1, k) : k \in 0..MaxStr}
Scalars == {JStr(x) : x \in Strings} \cup {JNull, JNum(7)}
Keys == {KeyText, KeyK}
FieldLists == {<<>>, <<KeyText>>, <<KeyK>>, <<KeyText, KeyK>>}
MaxLens == {None} \cup {Some(m) : m \in 0..MaxStr}

\* An input of n values is drawn as the kind of each value, the key under
\* which it sits in its parent, and its depth, in document order.
ItemLabels ==
    {[c |-> "leaf", v |-> x] : x \in Scalars}
        \cup {[c |-> "arr", v |-> JNull], [c |-> "obj", v |-> JNull]}

ParentOf(d, j) ==
    CHOOSE i \in 1..(j - 1) :
        d[i] = d[j] - 1 /\ \A k \in (i + 1)..(j - 1) : d[k] >= d[j]

\* one root; only containers have children
IsValueShape(l, d, n) ==
    /\ d[1] = 0
    /\ \A j \in 2..n : d[j] >= 1 /\ d[j] <= d[j - 1] + 1
    /\ \A j \in 2..n : l[ParentOf(d, j)].c # "leaf"

\* the keys of an object are distinct; an array item has no key (KeyK stands)
IsKeying(q, l, d, n) ==
    /\ q[1] = KeyK
    /\ \A j \in 2..n : l[ParentOf(d, j)].c = "arr" => q[j] = KeyK
    /\ \A i, j \in 2..n :
         (i < j /\ ParentOf(d, i) = ParentOf(d, j)) => q[i] # q[j]

RECURSIVE BuildValue(_, _, _, _, _)
BuildItems(l, q, d, n, kids) ==
    <<>> \o [x \in 1..Len(kids) |-> BuildValue(l, q, d, n, kids[x])]

BuildEntries(l, q, d, n, kids) ==
    <<>> \o [x \in 1..Len(kids) |->
                [k |-> q[kids[x]], v |-> BuildValue(l, q, d, n, kids[x])]]

BuildValue(l, q, d, n, i) ==
    CASE l[i].c = "leaf" -> l[i].v
      [] l[i].c = "arr" ->
            JArr(BuildItems(l, q, d, n, KidsOf(d, n, i, SubtreeEnd(d, n, i))))
      [] OTHER ->
            JObj(BuildEntries(l, q, d, n, KidsOf(d, n, i, SubtreeEnd(d, n, i))))

InitFilter ==
    /\ StreamOff
    /\ TreeOff
    /\ ClientOff
    /\ \E n \in 1..MaxSize :
         \E d \in [1..n -> 0..(n - 1)] :
            \E l \in [1..n -> ItemLabels] :
               /\ IsValueShape(l, d, n)
               /\ \E q \in [1..n -> Keys] :
                    /\ IsKeying(q, l, d, n)
                    /\ dataIn = BuildValue(l, q, d, n, 1)
    /\ fieldsIn \in {None} \cup {Some(f) : f \in FieldLists}
    /\ maxLenIn \in MaxLens
    /\ filtered = JNull
    /\ refiltered = JNull
    /\ fpc = "idle"

\* removeFields(data, fields, maxLen)
CallRemoveFields ==
    /\ fpc = "idle"
    /\ filtered' = removeFields(dataIn, FieldsOr(fieldsIn), maxLenIn)
    /\ fpc' = "once"
    /\ UNCHANGED <<dataIn, fieldsIn, maxLenIn, refiltered, svars, tvars, cvars>>

\* removeFields applied to its own result, with the same fields and maxLen
CallRemoveFieldsAgain ==
    /\ fpc = "once"
    /\ refiltered' = removeFields(filtered, FieldsOr(fieldsIn), maxLenIn)
    /\ fpc' = "twice"
    /\ UNCHANGED <<dataIn, fieldsIn, maxLenIn, filtered, svars, tvars, cvars>>

NextFilter == CallRemoveFields \/ CallRemoveFieldsAgain

SpecFilter == InitFilter /\ [][NextFilter]_vars


(***************************************************************************)
(* The operations of PageIndexClient (part_000:87-349)                     *)
(*                                                                         *)
(* What the network does is the environment's choice: fetch rejects (no    *)
(* response arrives, a TypeError), or a response arrives with its ok flag  *)
(* and its body text.  axios.post rejects both when no response arrives    *)
(* and when the status is not 2xx.  An operation ends by returning a value *)
(* or by throwing an error of some class.                                  *)
(***************************************************************************)
Returned(v) == [kind |-> "return", value |-> v, error |-> "none"]
Thrown(class) == [kind |-> "throw", value |-> JUndefined, error |-> class]

Rejected == [rejected |-> TRUE, ok |-> FALSE, body |-> <<>>]
Response(ok, body) == [rejected |-> FALSE, ok |-> ok, body |-> body]

\* res.json(): the body parsed as JSON, a SyntaxError when it is not JSON
Parsed(r) == IF r.ok THEN Returned(r.v) ELSE Thrown("SyntaxError")

ResJson(res) == Parsed(JSONParse(res.body))

\* const res = await fetch(...); if (!res.ok) throw new PageIndexAPIError(...);
\* return res.json();
AfterFetch(res) ==
    IF res.rejected THEN Thrown("TypeError")
    ELSE IF ~res.ok THEN Thrown("PageIndexAPIError")
    ELSE ResJson(res)

\* response.data of axios: the body parsed as JSON when it parses, else the text
DataOf(body, r) == IF r.ok THEN r.v ELSE JStr(body)

\* try { ... await axios.post(...); return response.data } catch { throw new
\* PageIndexAPIError(...) }
AfterAxios(res) ==
    IF res.rejected \/ ~res.ok THEN Thrown("PageIndexAPIError")
    ELSE Returned(DataOf(res.body, JSONParse(res.body)))

\* submitDocument (part_000:87-109), for a file that can be read
submitDocument(filePath, res) == AfterAxios(res)

PdfSuffix == <<".", "p", "d", "f">>

\* s.endsWith(w)
EndsWith(s, w) == Len(s) >= Len(w) /\ SubSeq(s, Len(s) - Len(w) + 1, Len(s)) = w

\* submitDocumentBuffer (part_000:111-133)
submitDocumentBuffer(filename, res) ==
    IF ~EndsWith(filename, PdfSuffix) THEN Thrown("PageIndexAPIError")
    ELSE AfterAxios(res)

\* getOCR (part_000:137-147)
getOCR(docId, res) == AfterFetch(res)

\* getTree (part_000:151-161)
getTree(docId, res) == AfterFetch(res)

\* result.retrieval_ready ?? false inside try { } catch { return false }:
\* a thrown getTree and the TypeError of reading a member of null both end
\* in the catch
ReadyOr(v) == IF Nullish(v) THEN JBool(FALSE) ELSE v

ReadyOf(r) ==
    IF r.kind = "throw" \/ Nullish(r.value) THEN Returned(JBool(FALSE))
    ELSE Returned(ReadyOr(OptGet(r.value, "retrieval_ready")))

\* isRetrievalReady (part_000:163-170)
isRetrievalReady(docId, res) == ReadyOf(getTree(docId, res))

\* submitQuery (part_000:174-191)
submitQuery(docId, query, res) == AfterFetch(res)

\* getRetrieval (part_000:193-203)
getRetrieval(retrievalId, res) == AfterFetch(res)

\* getDocument (part_000:304-314)
getDocument(docId, res) == AfterFetch(res)

\* deleteDocument (part_000:316-326)
deleteDocument(docId, res) == AfterFetch(res)

DefaultLimit == 50
DefaultOffset == 0

\* listDocuments (part_000:328-349)
listDocuments(limit, offset, res) ==
    IF limit < 1 \/ limit > 100 THEN Thrown("Error")
    ELSE IF offset < 0 THEN Thrown("Error")
    ELSE AfterFetch(res)

\* (await this.listDocuments()).documents.map(d => d.id): reading a member
\* of null or undefined, and calling map on what is no array, are TypeErrors
HasNullish(items) == \E i \in 1..Len(items) : Nullish(items[i])

IdsOfDocuments(docs) ==
    IF docs.t # "arr" \/ HasNullish(docs.items) THEN Thrown("TypeError")
    ELSE Returned(JArr(<<>> \o [i \in 1..Len(docs.items) |-> OptGet(docs.items[i], "id")]))

AllDocIds(r) ==
    IF r.kind = "throw" THEN r
    ELSE IF Nullish(r.value) THEN Thrown("TypeError")
    ELSE IdsOfDocuments(OptGet(r.value, "documents"))

\* the generator chatCompletions returns when stream is set
Generator(streamMetadata) ==
    [t |-> "generator", mode |-> IF streamMetadata THEN "raw" ELSE "text"]

ChatResult(res, streaming, streamMetadata) ==
    IF res.rejected THEN Thrown("TypeError")
    ELSE IF ~res.ok THEN Thrown("PageIndexAPIError")
    ELSE IF ~streaming THEN ResJson(res)
    ELSE Returned(Generator(streamMetadata))

AfterDocIds(ids, streaming, streamMetadata, chatRes) ==
    IF ids.kind = "throw" THEN ids ELSE ChatResult(chatRes, streaming, streamMetadata)

\* chatCompletions (part_000:207-249); docId is <<>> for an absent or null
\* doc_id, and listRes answers the listDocuments() call made in that case
chatCompletions(docId, streaming, streamMetadata, listRes, chatRes) ==
    IF docId = None \/ docId = Some(<<>>)
    THEN AfterDocIds(AllDocIds(listDocuments(DefaultLimit, DefaultOffset, listRes)),
                     streaming, streamMetadata, chatRes)
    ELSE ChatResult(chatRes, streaming, streamMetadata)

BodyNull == <<"n", "u", "l", "l">>
BodyEmptyObject == <<"{", "}">>
BodyReady ==
    <<"{", "\"", "r", "e", "t", "r", "i", "e", "v", "a", "l", "_", "r",
      "e", "a", "d", "y", "\"", ":", "t", "r", "u", "e", "}">>
BodyDocuments ==
    <<"{", "\"", "d", "o", "c", "u", "m", "e", "n", "t", "s", "\"",
      ":", "[", "{", "\"", "i", "d", "\"", ":", "\"", "d", "\"", "}",
      "]", "}">>
BodyHtml == <<"<", "h", "t", "m", "l", ">">>

Bodies == {BodyNull, BodyEmptyObject, BodyReady, BodyDocuments, BodyHtml}
Responses == {Rejected} \cup {Response(ok, body) : ok \in BOOLEAN, body \in Bodies}

DocId == <<"d">>
Query == <<"q">>
FileNames == {<<"a", ".", "p", "d", "f">>, <<"a", ".", "t", "x", "t">>}
Limits == {0, 1, 100, 101}
Offsets == {-1, 0}

InitClient ==
    /\ StreamOff
    /\ TreeOff
    /\ FilterOff
    /\ call = None
    /\ outcome = None
    /\ cpc = "ready"

\* the record of a call: its name, arguments, and the responses it is given
CallOf(op, args, responses) == [op |-> op, args |-> args, responses |-> responses]

PdfPath == <<"a", ".", "p", "d", "f">>

CallSubmitDocument ==
    /\ cpc = "ready"
    /\ \E res \in Responses :
         /\ call' = Some(CallOf("submitDocument", <<PdfPath>>, <<res>>))
         /\ outcome' = Some(submitDocument(PdfPath, res))
    /\ UNCHANGED <<cpc, svars, tvars, fvars>>

CallSubmitDocumentBuffer ==
    /\ cpc = "ready"
    /\ \E name \in FileNames, res \in Responses :
         /\ call' = Some(CallOf("submitDocumentBuffer", <<name>>, <<res>>))
         /\ outcome' = Some(submitDocumentBuffer(name, res))
    /\ UNCHANGED <<cpc, svars, tvars, fvars>>

CallGetOCR ==
    /\ cpc = "ready"
    /\ \E res \in Responses :
         /\ call' = Some(CallOf("getOCR", <<DocId>>, <<res>>))
         /\ outcome' = Some(getOCR(DocId, res))
    /\ UNCHANGED <<cpc, svars, tvars, fvars>>

CallGetTree ==
    /\ cpc = "ready"
    /\ \E res \in Responses :
         /\ call' = Some(CallOf("getTree", <<DocId>>, <<res>>))
         /\ outcome' = Some(getTree(DocId, res))
    /\ UNCHANGED <<cpc, svars, tvars, fvars>>

CallIsRetrievalReady ==
    /\ cpc = "ready"
    /\ \E res \in Responses :
         /\ call' = Some(CallOf("isRetrievalReady", <<DocId>>, <<res>>))
         /\ outcome' = Some(isRetrievalReady(DocId, res))
    /\ UNCHANGED <<cpc, svars, tvars, fvars>>

CallSubmitQuery ==
    /\ cpc = "ready"
    /\ \E res \in Responses :
         /\ call' = Some(CallOf("submitQuery", <<DocId, Query>>, <<res>>))
         /\ outcome' = Some(submitQuery(DocId, Query, res))
    /\ UNCHANGED <<cpc, svars, tvars, fvars>>

CallGetRetrieval ==
    /\ cpc = "ready"
    /\ \E res \in Responses :
         /\ call' = Some(CallOf("getRetrieval", <<DocId>>, <<res>>))
         /\ outcome' = Some(getRetrieval(DocId, res))
    /\ UNCHANGED <<cpc, svars, tvars, fvars>>

CallGetDocument ==
    /\ cpc = "ready"
    /\ \E res \in Responses :
         /\ call' = Some(CallOf("getDocument", <<DocId>>, <<res>>))
         /\ outcome' = Some(getDocument(DocId, res))
    /\ UNCHANGED <<cpc, svars, tvars, fvars>>

CallDeleteDocument ==
    /\ cpc = "ready"
    /\ \E res \in Responses :
         /\ call' = Some(CallOf("deleteDocument", <<DocId>>, <<res>>))
         /\ outcome' = Some(deleteDocument(DocId, res))
    /\ UNCHANGED <<cpc, svars, tvars, fvars>>

\* listDocuments(), listDocuments(limit) and listDocuments(limit, offset)
CallListDocuments ==
    /\ cpc = "ready"
    /\ \E limit \in {None} \cup {Some(x) : x \in Limits},
          offset \in {None} \cup {Some(x) : x \in Offsets},
          res \in Responses :
         /\ call' = Some(CallOf("listDocuments", <<limit, offset>>, <<res>>))
         /\ outcome' = Some(listDocuments(
                                IF limit = None THEN DefaultLimit ELSE limit[1],
                                IF offset = None THEN DefaultOffset ELSE offset[1],
                                res))
    /\ UNCHANGED <<cpc, svars, tvars, fvars>>

\* chatCompletions({messages, stream, doc_id, stream_metadata})
CallChatCompletions ==
    /\ cpc = "ready"
    /\ \E docId \in {None, Some(DocId)}, streaming \in BOOLEAN,
          streamMetadata \in BOOLEAN, listRes \in Responses, chatRes \in Responses :
         /\ call' = Some(CallOf("chatCompletions", <<docId, streaming, streamMetadata>>,
                                IF docId = None THEN <<listRes, chatRes>>
                                ELSE <<chatRes>>))
         /\ outcome' = Some(chatCompletions(docId, streaming, streamMetadata,
                                            listRes, chatRes))
    /\ UNCHANGED <<cpc, svars, tvars, fvars>>

NextClient ==
    \/ CallSubmitDocument
    \/ CallSubmitDocumentBuffer
    \/ CallGetOCR
    \/ CallGetTree
    \/ CallIsRetrievalReady
    \/ CallSubmitQuery
    \/ CallGetRetrieval
    \/ CallGetDocument
    \/ CallDeleteDocument
    \/ CallListDocuments
    \/ CallChatCompletions

SpecClient == InitClient /\ [][NextClient]_vars

(***************************************************************************)
(* The whole library: any one of its parts in use                          *)
(***************************************************************************)
Init == InitStream \/ InitTree \/ InitFilter \/ InitClient

Next == NextStream \/ NextTree \/ NextFilter \/ NextClient

Spec == Init /\ [][Next]_vars


(***************************************************************************)
(* Claims about the stream decoder                                         *)
(***************************************************************************)
IsFinished == spc \in {"done", "returned", "threw"}

\* the lines of the chunk delivered by the step under way
StepLines == {SplitLines(TextDecode(c)) : c \in {SubSeq(stream, pos + 1, pos')}}

\* C1: the output does not depend on where the transport cuts the stream: when
\* the decoder has finished, it has yielded what it yields when the whole
\* stream arrives as one chunk.
C1_ChunkingIndependent ==
    IsFinished => yielded = DecodeChunk(stream, mode).out

\* a "data: " line whose trimmed payload is exactly "[DONE]"
IsDoneLine(line) ==
    StartsWith(line, DataPrefix) /\ Trim(SliceFrom(line, 6)) = DoneSentinel

\* index of the first sentinel line among lines, 0 when there is none
RECURSIVE FirstDone(_, _)
FirstDone(lines, i) ==
    IF i > Len(lines) THEN 0
    ELSE IF IsDoneLine(lines[i]) THEN i
    ELSE FirstDone(lines, i + 1)

SentinelStep(lines, k) ==
    k > 0 =>
        /\ spc' = "returned"
        /\ yielded' = yielded \o DecodeLines(SubSeq(lines, 1, k - 1), 1, mode).out

\* C3: a chunk that holds a sentinel line ends the sequence at that line: what
\* the lines before it produce is yielded, nothing of the lines after it is,
\* and from then on the decoder takes no step at all: no read, no yield.
C3_SentinelEndsStream ==
    [][/\ spc # "returned"
       /\ pos' > pos =>
            \E lines \in StepLines :
                SentinelStep(lines, FirstDone(lines, 1))]_vars

C3_Witness ==
    /\ stream = Wire(<<LineDone, EventContentA>>)
    /\ pos = Len(stream)
    /\ spc = "returned"
    /\ yielded = <<>>

\* a "data: " line that is not the sentinel and whose payload is not JSON
IsMalformedLine(line) ==
    /\ StartsWith(line, DataPrefix)
    /\ Trim(SliceFrom(line, 6)) # DoneSentinel
    /\ ~JSONParse(Trim(SliceFrom(line, 6))).ok

SameAsWithout(kept) ==
    /\ yielded' = yielded \o kept.out
    /\ spc' = (IF kept.status = "return" THEN "returned" ELSE "read")

\* C4: malformed frames are dropped silently: a chunk is decoded exactly as the
\* same chunk with its malformed lines deleted, in what it yields and in whether
\* the stream goes on, and no exception leaves the decoder.
C4_MalformedDropped ==
    [][/\ spc' # "threw"
       /\ pos' > pos =>
            \E lines \in StepLines :
                \E kept \in {SelectSeq(lines, LAMBDA l : ~IsMalformedLine(l))} :
                    Len(kept) < Len(lines) => SameAsWithout(DecodeLines(kept, 1, mode))]_vars

C4_Witness ==
    /\ stream = Wire(<<LineMalformed, EventContentA>>)
    /\ spc = "done"
    /\ mode = "text"
    /\ yielded = <<JStr(<<"A">>)>>

\* choices[0].delta.content of a parsed frame, when present and non-empty
HasContent(v) ==
    /\ v.t = "obj"
    /\ OptGet(v, "choices").t = "arr"
    /\ Len(OptGet(v, "choices").items) >= 1
    /\ OptGet(OptGet(OptGet(v, "choices").items[1], "delta"), "content").t = "str"
    /\ Len(OptGet(OptGet(OptGet(v, "choices").items[1], "delta"), "content").s) > 0

\* the raw-mode element of one line: the parsed value of a "data: " line
RawElements(line) ==
    IF StartsWith(line, DataPrefix) /\ JSONParse(Trim(SliceFrom(line, 6))).ok
    THEN <<JSONParse(Trim(SliceFrom(line, 6))).v>>
    ELSE <<>>

\* raw elements mapped to choices[0].delta.content, absent and empty removed
RECURSIVE TextOfRaw(_)
TextOfRaw(raw) ==
    IF raw = <<>> THEN <<>>
    ELSE (IF HasContent(Head(raw))
          THEN <<OptGet(OptGet(OptGet(Head(raw), "choices").items[1], "delta"), "content")>>
          ELSE <<>>) \o TextOfRaw(Tail(raw))

\* the raw elements of the lines from i on, up to the first sentinel line
RECURSIVE RawOutput(_, _)
RawOutput(lines, i) ==
    IF i > Len(lines) \/ IsDoneLine(lines[i]) THEN <<>>
    ELSE RawElements(lines[i]) \o RawOutput(lines, i + 1)

FrameByFrame(lines, m) ==
    IF m = "raw" THEN RawOutput(lines, 1) ELSE TextOfRaw(RawOutput(lines, 1))

\* C5: while every chunk has ended at the end of a line, the output is that of
\* the lines delivered, frame by frame: nothing for a line without the prefix
\* or with a payload that is not JSON, the parsed value in raw mode, and in
\* text mode the raw output mapped to choices[0].delta.content with absent and
\* empty contents removed.
C5_FrameByFrame ==
    (mode # "off" /\ aligned) =>
        yielded = FrameByFrame(SplitLines(TextDecode(SubSeq(stream, 1, pos))), mode)

C5_Witness ==
    /\ stream = Wire(<<LineEmptyContent, EventContentA>>)
    /\ aligned
    /\ spc = "done"
    /\ mode = "text"
    /\ yielded = <<JStr(<<"A">>)>>

(***************************************************************************)
(* Claims about the tree indexer.  The pre-order of the claims is stated   *)
(* on the paths of the input: a path is the list of child indices from a   *)
(* root (a single tree is the one root) down to a node.                    *)
(***************************************************************************)
Forest(tree) == IF IsArray(tree) THEN tree.items ELSE <<tree>>

RECURSIVE PathsOf(_)
PathsOf(forest) ==
    UNION {{<<i>>} \cup {<<i>> \o q : q \in PathsOf(forest[i].nodes)} :
           i \in 1..Len(forest)}

RECURSIVE NodeAt(_, _)
NodeAt(forest, p) ==
    IF Len(p) = 1 THEN forest[p[1]] ELSE NodeAt(forest[p[1]].nodes, Tail(p))

\* node before its children, children in listed order, roots in list order
Before(p, q) ==
    \/ Len(p) < Len(q) /\ SubSeq(q, 1, Len(p)) = p
    \/ \E k \in 1..Len(p) :
         /\ k <= Len(q)
         /\ SubSeq(p, 1, k - 1) = SubSeq(q, 1, k - 1)
         /\ p[k] < q[k]

\* a node has a node_id when the field is present and not the empty string
CarriesId(node) == node.node_id \notin {None, Some("")}

\* the input as a list of roots, its paths, and its paths to nodes with a
\* node_id: <<forest, paths, idPaths>>
ViewOf(forest, paths) ==
    <<forest, paths, {p \in paths : CarriesId(NodeAt(forest, p))}>>

InputViews ==
    {ViewOf(f[1], PathsOf(f[1])) : f \in {<<Forest(treeIn)>>}}

IdOf(v, p) == NodeAt(v[1], p).node_id[1]
IdsOf(v) == {IdOf(v, p) : p \in v[3]}
UniqueIds(v) == \A p, q \in v[3] : IdOf(v, p) = IdOf(v, q) => p = q

\* the last node in pre-order that carries the node_id k
IsLastCarrier(v, p, k) ==
    /\ IdOf(v, p) = k
    /\ \A q \in v[3] : IdOf(v, q) = k => (q = p \/ Before(q, p))

\* the nodes at the position after p in the full pre-order list (none or
\* one): the immediate pre-order successor
NextPaths(v, p) ==
    {q \in v[2] : Before(p, q) /\ \A r \in v[2] : ~(Before(p, r) /\ Before(r, q))}

\* C6: createNodeMapping(T) has exactly the distinct node_ids of T as keys,
\* no entry for a node without node_id, and each key maps to the last node
\* in pre-order that carries it (last write wins).
C6_LastWriteWins ==
    tpc = "nodes" =>
        \A v \in InputViews :
            /\ DOMAIN mapping = IdsOf(v)
            /\ \A k \in DOMAIN mapping :
                 \E p \in v[3] : IsLastCarrier(v, p, k) /\ mapping[k] = NodeAt(v[1], p)

C6_Witness ==
    /\ tpc = "nodes"
    /\ treeIn = Node(Some("a"), Some(1), <<Node(None, Some(3), <<>>),
                                           Node(Some("a"), Some(3), <<>>)>>)
    /\ mapping = ("a" :> Node(Some("a"), Some(3), <<>>))

\* the page ranges of the example of C7
ExampleRanges ==
    [k \in {"r", "a", "b"} |->
        CASE k = "r" -> <<Some(1), Some(1)>>
          [] k = "a" -> <<Some(1), Some(3)>>
          [] k = "b" -> <<Some(3), Some(10)>>]

RangesOf(map) == [k \in DOMAIN map |-> <<map[k].start_index, map[k].end_index>>]

\* the entry of the node at p: itself, its own page_index, and the
\* page_index of the node at the next position or else maxPage
IsEntryOf(entry, v, p, next, maxPage) ==
    /\ entry.node = NodeAt(v[1], p)
    /\ entry.start_index = entry.node.page_index
    /\ \A q \in next : entry.end_index = NodeAt(v[1], q).page_index
    /\ next = {} => entry.end_index = maxPage

\* C7: with unique node_ids, createNodeMapping(T, true, maxPage) gives the
\* node with a node_id at position i of the full pre-order list its own
\* page_index as start_index and the page_index of the node at position
\* i+1 as end_index, maxPage when there is no position i+1; nodes without
\* node_id have no entry; the example tree gives r:1..1, a:1..3, b:3..10.
C7_PageRanges ==
    tpc = "ranges" =>
        /\ \A v \in InputViews :
             UniqueIds(v) =>
                /\ DOMAIN mapping = IdsOf(v)
                /\ \A p \in v[3] :
                     IsEntryOf(mapping[IdOf(v, p)], v, p, NextPaths(v, p), maxPageIn)
        /\ (treeIn = ExampleTree /\ maxPageIn = Some(10)) =>
             RangesOf(mapping) = ExampleRanges

C7_Witness ==
    /\ tpc = "ranges"
    /\ treeIn = ExampleTree
    /\ maxPageIn = Some(10)
    /\ RangesOf(mapping) = ExampleRanges

\* the last node in pre-order that has a node_id
IsLastWithId(v, p) == \A q \in v[3] : q = p \/ Before(q, p)

\* C2 as stated: the last node in pre-order that has a node_id gets the
\* end_index P, and every other node that has a node_id gets the
\* page_index of its immediate pre-order successor.
C2_LastWithIdGetsMaxPage ==
    tpc = "ranges" =>
        \A v \in InputViews :
            \A p \in v[3] :
                /\ IdOf(v, p) \in DOMAIN mapping
                /\ IF IsLastWithId(v, p)
                   THEN mapping[IdOf(v, p)].end_index = maxPageIn
                   ELSE \A q \in NextPaths(v, p) :
                          mapping[IdOf(v, p)].end_index = NodeAt(v[1], q).page_index

\* the end_index of the node at p: the page_index of its immediate
\* successor in the full pre-order list, P when it has none
IsEndOf(end, v, p, next, maxPage) ==
    /\ \A q \in next : end = NodeAt(v[1], q).page_index
    /\ next = {} => end = maxPage

\* C2: for every node_id k of T, the entry of k in createNodeMapping(T,
\* true, P) has as end_index the page_index of the immediate successor, in
\* the full pre-order list (nodes without node_id included), of the last
\* node carrying k, and has end_index P only when that node is the last
\* node of the full list.
C2_EndIndexOfSuccessor ==
    tpc = "ranges" =>
        \A v \in InputViews :
            \A p \in v[3] :
                IsLastCarrier(v, p, IdOf(v, p)) =>
                    /\ IdOf(v, p) \in DOMAIN mapping
                    /\ IsEndOf(mapping[IdOf(v, p)].end_index, v, p,
                               NextPaths(v, p), maxPageIn)

C2_Witness ==
    /\ tpc = "ranges"
    /\ treeIn = Node(Some("a"), Some(1), <<Node(None, Some(3), <<>>)>>)
    /\ maxPageIn = Some(10)
    /\ mapping["a"].end_index = Some(3)

(***************************************************************************)
(* Claims about the field filter.  A string value of the input is found    *)
(* by its path: the array indices and object keys from the root to it.     *)
(***************************************************************************)
AtIndex(i) == [kind |-> "index", i |-> i, k |-> <<>>]
AtKey(k) == [kind |-> "key", i |-> 0, k |-> k]

RECURSIVE StringPaths(_)
StringPaths(v) ==
    CASE v.t = "str" -> {<<>>}
      [] v.t = "arr" ->
            UNION {{<<AtIndex(i)>> \o p : p \in StringPaths(v.items[i])} :
                   i \in 1..Len(v.items)}
      [] v.t = "obj" ->
            UNION {{<<AtKey(v.entries[i].k)>> \o p : p \in StringPaths(v.entries[i].v)} :
                   i \in 1..Len(v.entries)}
      [] OTHER -> {}

\* the value at a path; undefined where the path does not exist
RECURSIVE ValueAt(_, _)
ValueAt(v, p) ==
    IF p = <<>> THEN v
    ELSE IF Head(p).kind = "index"
         THEN IF v.t = "arr" /\ Head(p).i <= Len(v.items)
              THEN ValueAt(v.items[Head(p).i], Tail(p))
              ELSE JUndefined
    ELSE ValueAt(OptGet(v, Head(p).k), Tail(p))

\* the truncation law for one string of the input and what stands in its
\* place in the output
IsTruncationOf(out, s, maxLen) ==
    /\ out.t = "str"
    /\ IF Len(s) > maxLen
       THEN /\ Len(out.s) = maxLen + 3
            /\ SubSeq(out.s, 1, maxLen) = SubSeq(s, 1, maxLen)
            /\ SubSeq(out.s, maxLen + 1, maxLen + 3) = <<".", ".", ".">>
       ELSE out.s = s

UnderRemovedKey(p, fields) ==
    \E i \in 1..Len(p) : p[i].kind = "key" /\ Includes(fields, p[i].k)

\* C8: removeFields is idempotent: applied again to its own result, with
\* the same fields and maxLen, it returns an equal value.
C8_Idempotent == fpc = "twice" => refiltered = filtered

C8_Witness ==
    /\ fpc = "twice"
    /\ dataIn = JObj(<<[k |-> KeyText, v |-> JStr(<<"a">>)],
                       [k |-> KeyK, v |-> JStr(<<"a", "b", "c">>)]>>)
    /\ fieldsIn = None
    /\ maxLenIn = Some(1)
    /\ filtered = JObj(<<[k |-> KeyK, v |-> JStr(<<"a", ".", ".", ".">>)]>>)
    /\ refiltered = filtered

\* C9 as stated: with a maxLen, every string value of the input, at any
\* depth, appears in the output: truncated to maxLen characters plus "..."
\* when longer than maxLen, unchanged otherwise.
C9_EveryStringAppears ==
    (fpc \in {"once", "twice"} /\ maxLenIn # None) =>
        \A p \in StringPaths(dataIn) :
            IsTruncationOf(ValueAt(filtered, p), ValueAt(dataIn, p).s, maxLenIn[1])

\* C9: with a maxLen, every string value of the input that is not under a
\* removed field appears at its place in the output, truncated to maxLen
\* characters plus "..." when longer than maxLen and unchanged otherwise;
\* a string under a removed field does not appear.
C9_KeptStringsTruncated ==
    (fpc \in {"once", "twice"} /\ maxLenIn # None) =>
        \A p \in StringPaths(dataIn) :
            IF UnderRemovedKey(p, FieldsOr(fieldsIn))
            THEN ValueAt(filtered, p) = JUndefined
            ELSE IsTruncationOf(ValueAt(filtered, p), ValueAt(dataIn, p).s, maxLenIn[1])

C9_Witness ==
    /\ fpc = "once"
    /\ dataIn = JArr(<<JObj(<<[k |-> KeyK, v |-> JStr(<<"a", "b", "c">>)]>>)>>)
    /\ maxLenIn = Some(2)
    /\ fieldsIn = Some(<<KeyText>>)
    /\ filtered = JArr(<<JObj(<<[k |-> KeyK, v |-> JStr(<<"a", "b", ".", ".", ".">>)]>>)>>)

(***************************************************************************)
(* Claims about the client's errors                                        *)
(***************************************************************************)
\* a request of the last call got no response, or a response that is not ok
RequestFailed ==
    \E i \in 1..Len(call[1].responses) :
        call[1].responses[i].rejected \/ ~call[1].responses[i].ok

\* C10: whenever an operation of the client fails, the caller receives a
\* PageIndexAPIError: an error that reaches the caller is a
\* PageIndexAPIError, and a failed request reaches the caller as an error.
C10_FailuresArePageIndexAPIError ==
    call # None =>
        /\ outcome[1].kind = "throw" => outcome[1].error = "PageIndexAPIError"
        /\ RequestFailed => outcome[1].kind = "throw"

====
